---------------------------- MODULE Spec2Model ----------------------------
(***************************************************************************)
(* Model of the breakout game of src/src/breakout.rs driven by the host    *)
(* loop of src/src/main.rs.                                                *)
(*                                                                         *)
(* Numbers.  The program computes in f32.  The model is a fixed-point      *)
(* image of it: a length is an integer count of 1/Unit arena units and a   *)
(* frame time an integer count of 1/TicksPerSecond seconds.  A frame time  *)
(* of k/64 s is a dyadic rational, so get_frame_time() can return it       *)
(* exactly, and velocity * frame_time * 1000 is then k * 7.8125 units,     *)
(* which f32 represents exactly at the magnitudes of the arena: on these   *)
(* inputs the integer arithmetic below is the program's arithmetic.        *)
(***************************************************************************)
EXTENDS Integers, Sequences, FiniteSets

\* ------------------------------------------------------------------------
\* Resolution of the fixed-point image of f32
Unit == 16
TicksPerSecond == 64

\* ------------------------------------------------------------------------
\* Game constants (breakout.rs:37-45) and host constants (main.rs:18)
BRICK_COUNT == 14
BRICK_ROWS == 8
BRICK_SIZE == [x |-> 50 * Unit, y |-> 15 * Unit]
BRICK_GAP == 6 * Unit
GAME_WIDTH == BRICK_COUNT * (BRICK_SIZE.x + BRICK_GAP) - BRICK_GAP
PADDING == 150 * Unit
\* 0.5 arena units per millisecond, in 1/Unit units per tick
BASE_SPEED == (1000 * Unit) \div (2 * TicksPerSecond)
BALL_SIZE == [x |-> 16 * Unit, y |-> 16 * Unit]
FONT_SIZE == 56

\* Wrap-around widths of the integer counters (score: u16, balls_rem: u8)
U16 == 65536
U8 == 256

\* screen_height() of the host: the height of the full-screen window
SCREEN_HEIGHT == 768

\* ------------------------------------------------------------------------
\* Bounds of the exploration
MaxFrames == 5
\* the rectangles given to intersects taken alone: corners in 0..MaxCoord,
\* sides in 1..MaxSide (every Rect the program builds has positive sides)
MaxCoord == 2
MaxSide == 2
\* frame times get_frame_time() may return, in ticks
FrameTimes == {1, 29, 48}
\* pointer positions mouse_position().0 may return, in arena units
MouseXs == {0, 500}

\* ------------------------------------------------------------------------
\* Rect (breakout.rs:12-35)
vec2(x, y) == [x |-> x, y |-> y]

Rect_from_vec(pos, size) ==
    [x |-> pos.x, y |-> pos.y, width |-> size.x, height |-> size.y]

\* (mutant of intersects: the comparisons made non-strict)
intersects_closed(self, other) ==
    /\ self.x <= other.x + other.width
    /\ self.x + self.width >= other.x
    /\ self.y <= other.y + other.height
    /\ self.y + self.height >= other.y

intersects(self, other) ==
    /\ self.x < other.x + other.width
    /\ self.x + self.width > other.x
    /\ self.y < other.y + other.height
    /\ self.y + self.height > other.y

\* ------------------------------------------------------------------------
\* Brick (breakout.rs:47-77)
Brick_new(row, col) ==
    [pos |-> vec2(col * (BRICK_SIZE.x + BRICK_GAP),
                  PADDING + (BRICK_ROWS - row - 1) * (BRICK_SIZE.y + BRICK_GAP)),
     row |-> row]

\* (mutant of point_value: the division by 2 left out)
point_value_undivided(brick) == brick.row * 2 + 1

\* (mutant of point_value: the half of the row rounded up)
point_value_rounded_up(brick) == ((brick.row + 1) \div 2) * 2 + 1

\* ((row / 2) as f64).floor() as u16 * 2 + 1: the u8 division truncates, the
\* conversions and floor keep the value
point_value(brick) == (brick.row \div 2) * 2 + 1

\* ------------------------------------------------------------------------
\* Breakout (breakout.rs:88-206)
Breakout_bricks ==
    [i \in 1..(BRICK_ROWS * BRICK_COUNT) |->
        Brick_new((i - 1) \div BRICK_COUNT, (i - 1) % BRICK_COUNT)]

\* where new() and a ball-drop put the ball
BallStart == vec2(GAME_WIDTH \div 2, (SCREEN_HEIGHT * Unit) \div 2)

Breakout_new(font_size) ==
    [font_size |-> font_size,
     game_state |-> "NewGame",
     bricks |-> Breakout_bricks,
     ball_pos |-> BallStart,
     ball_vel |-> vec2(BASE_SPEED, BASE_SPEED),
     paddle_pos |-> vec2((GAME_WIDTH - BRICK_SIZE.x) \div 2,
                         SCREEN_HEIGHT * Unit - PADDING),
     hit_paddle |-> FALSE,
     last_mouse_x |-> 0,
     score |-> 0,
     balls_rem |-> 3,
     game_count |-> 0]

Min(a, b) == IF a < b THEN a ELSE b
Max(a, b) == IF a > b THEN a ELSE b

\* (mutant of handle_mouse_move: the clamp left out)
handle_mouse_move_unclamped(g, mouse_x) ==
    [g EXCEPT !.paddle_pos.x = g.paddle_pos.x + (mouse_x - g.last_mouse_x),
              !.last_mouse_x = mouse_x]

handle_mouse_move(g, mouse_x) ==
    LET delta == mouse_x - g.last_mouse_x
    IN  [g EXCEPT !.paddle_pos.x =
                      Min(Max(g.paddle_pos.x + delta, 0), GAME_WIDTH - BRICK_SIZE.x),
                  !.last_mouse_x = mouse_x]

check_wall_collision(g) ==
    LET g1 == IF g.ball_pos.x <= 0 \/ g.ball_pos.x >= GAME_WIDTH - BALL_SIZE.x
              THEN [g EXCEPT !.ball_vel.x = -g.ball_vel.x]
              ELSE g
    IN  IF g1.ball_pos.y <= 0
        THEN [g1 EXCEPT !.ball_vel.y = -g1.ball_vel.y]
        ELSE g1

paddle_rect(g) ==
    IF g.game_state = "Playing"
    THEN Rect_from_vec(g.paddle_pos, BRICK_SIZE)
    ELSE [x |-> 0, y |-> g.paddle_pos.y, width |-> GAME_WIDTH, height |-> BRICK_SIZE.y]

\* (mutant of check_paddle_collision: the hit_paddle test left out)
check_paddle_collision_unlatched(g) ==
    IF intersects(Rect_from_vec(g.ball_pos, BALL_SIZE), paddle_rect(g))
    THEN [g EXCEPT !.hit_paddle = TRUE, !.ball_vel.y = -g.ball_vel.y]
    ELSE [g EXCEPT !.hit_paddle = FALSE]

check_paddle_collision(g) ==
    LET ball_rect == Rect_from_vec(g.ball_pos, BALL_SIZE)
    IN  IF intersects(ball_rect, paddle_rect(g))
        THEN IF ~g.hit_paddle
             THEN [g EXCEPT !.hit_paddle = TRUE, !.ball_vel.y = -g.ball_vel.y]
             ELSE g
        ELSE [g EXCEPT !.hit_paddle = FALSE]

\* (mutant of Remove: Vec::swap_remove(i), which puts the last element in the
\* place of the removed one)
SwapRemove(list, i) ==
    IF i = Len(list)
    THEN SubSeq(list, 1, i - 1)
    ELSE SubSeq(list, 1, i - 1) \o <<list[Len(list)]>>
            \o SubSeq(list, i + 1, Len(list) - 1)

\* Vec::remove(i), with i counted from 1
Remove(list, i) == SubSeq(list, 1, i - 1) \o SubSeq(list, i + 1, Len(list))

\* (mutant of check_brick_collision: the Playing test left out)
check_brick_collision_ungated(g) ==
    LET hit == {i \in 1..Len(g.bricks) :
                   intersects(Rect_from_vec(g.ball_pos, BALL_SIZE),
                              Rect_from_vec(g.bricks[i].pos, BRICK_SIZE))}
    IN  IF hit = {}
        THEN g
        ELSE LET i == CHOOSE i \in hit : \A j \in hit : i <= j
             IN  [g EXCEPT !.ball_vel.y = -g.ball_vel.y,
                           !.score = (g.score + point_value(g.bricks[i])) % U16,
                           !.bricks = Remove(g.bricks, i)]

\* the indices the loop of check_brick_collision would stop at
HitIndices(g) ==
    {i \in 1..Len(g.bricks) :
        intersects(Rect_from_vec(g.ball_pos, BALL_SIZE),
                   Rect_from_vec(g.bricks[i].pos, BRICK_SIZE))}

\* (mutant of FirstHit: the last brick under the ball, as a loop without the
\* break would leave it)
LastHit(g) == CHOOSE i \in HitIndices(g) : \A j \in HitIndices(g) : i >= j

\* the first of them: the iteration runs in list order and breaks
FirstHit(g) == CHOOSE i \in HitIndices(g) : \A j \in HitIndices(g) : i <= j

check_brick_collision(g) ==
    IF HitIndices(g) = {}
    THEN g
    ELSE LET i == FirstHit(g)
             g1 == [g EXCEPT !.ball_vel.y = -g.ball_vel.y]
         IN  IF g.game_state = "Playing"
             THEN [g1 EXCEPT !.score = (g.score + point_value(g.bricks[i])) % U16,
                             !.bricks = Remove(g.bricks, i)]
             ELSE g1

\* self.ball_pos += self.ball_vel * get_frame_time() * 1000.0
integrate(g, frame_time) ==
    [g EXCEPT !.ball_pos = vec2(g.ball_pos.x + g.ball_vel.x * frame_time,
                                g.ball_pos.y + g.ball_vel.y * frame_time)]

\* the condition of the ball-drop branch, on the integrated position
ball_dropped(g) == g.ball_pos.y >= g.paddle_pos.y

\* (mutant of update_ball: the GameOver transition left out)
update_ball_no_game_over(g, frame_time) ==
    LET m == [g EXCEPT !.ball_pos = vec2(g.ball_pos.x + g.ball_vel.x * frame_time,
                                         g.ball_pos.y + g.ball_vel.y * frame_time)]
    IN  IF m.ball_pos.y >= m.paddle_pos.y
        THEN [m EXCEPT !.ball_pos = BallStart,
                       !.balls_rem = (m.balls_rem - 1) % U8]
        ELSE m

\* (mutant of update_ball: balls_rem tested before the decrement instead of
\* after it)
update_ball_tests_first(g, frame_time) ==
    LET m == integrate(g, frame_time)
    IN  IF ball_dropped(m)
        THEN [m EXCEPT !.ball_pos = BallStart,
                       !.balls_rem = (m.balls_rem - 1) % U8,
                       !.game_state = IF m.balls_rem = 0 THEN "GameOver" ELSE @]
        ELSE m

\* balls_rem -= 1 on a u8 without overflow checks
update_ball(g, frame_time) ==
    LET m == integrate(g, frame_time)
    IN  IF ball_dropped(m)
        THEN LET rem == (m.balls_rem - 1) % U8
             IN  [m EXCEPT !.ball_pos = BallStart,
                           !.balls_rem = rem,
                           !.game_state = IF rem = 0 THEN "GameOver" ELSE @]
        ELSE m

\* update() up to the call of update_ball
before_update_ball(g, mouse_x) ==
    check_brick_collision(
        check_paddle_collision(
            check_wall_collision(
                handle_mouse_move(g, mouse_x))))

\* (mutant of update: the emptiness test made before the frame's work instead
\* of after it)
update_win_first(g, mouse_x, frame_time) ==
    LET g0 == IF Len(g.bricks) = 0 THEN [g EXCEPT !.game_state = "Win"] ELSE g
    IN  update_ball(before_update_ball(g0, mouse_x), frame_time)

\* (mutant of update: Win not set over GameOver)
update_keeps_game_over(g, mouse_x, frame_time) ==
    LET u == update_ball(before_update_ball(g, mouse_x), frame_time)
    IN  IF Len(u.bricks) = 0 /\ u.game_state # "GameOver"
        THEN [u EXCEPT !.game_state = "Win"]
        ELSE u

update(g, mouse_x, frame_time) ==
    LET u == update_ball(before_update_ball(g, mouse_x), frame_time)
    IN  IF Len(u.bricks) = 0
        THEN [u EXCEPT !.game_state = "Win"]
        ELSE u

\* whether this update() performs balls_rem -= 1 on a zero balls_rem
sub_overflows(g, mouse_x, frame_time) ==
    LET m == integrate(before_update_ball(g, mouse_x), frame_time)
    IN  ball_dropped(m) /\ m.balls_rem = 0

\* the fields as the overflow check's panic leaves them: the subtraction is
\* the statement after the ball's reset
at_overflow_panic(g, mouse_x, frame_time) ==
    [integrate(before_update_ball(g, mouse_x), frame_time)
        EXCEPT !.ball_pos = BallStart]

\* ------------------------------------------------------------------------
\* Host (main.rs:44-61)
\* (mutant of handle_mouse_click: the session is kept in GameOver and Win)
handle_mouse_click_no_reset(g, pressed) ==
    IF pressed /\ g.game_state # "Playing"
    THEN [g EXCEPT !.game_state = "Playing"]
    ELSE g

\* (mutant of handle_mouse_click: every state but Playing starts a new
\* session)
handle_mouse_click_resets_any(g, pressed) ==
    IF pressed /\ g.game_state # "Playing"
    THEN [Breakout_new(FONT_SIZE) EXCEPT !.game_state = "Playing"]
    ELSE g

handle_mouse_click(g, pressed) ==
    IF pressed /\ g.game_state # "Playing"
    THEN LET g1 == IF g.game_state = "GameOver" \/ g.game_state = "Win"
                   THEN Breakout_new(FONT_SIZE)
                   ELSE g
         IN  [g1 EXCEPT !.game_state = "Playing"]
    ELSE g

\* (mutant of handle_key: every state but Playing resumes)
handle_key_resumes_any(g, pressed) ==
    IF pressed
    THEN [g EXCEPT !.game_state =
             IF g.game_state = "Playing" THEN "Paused" ELSE "Playing"]
    ELSE g

handle_key(g, pressed) ==
    IF pressed
    THEN [g EXCEPT !.game_state =
             CASE g.game_state = "Playing" -> "Paused"
               [] g.game_state = "Paused" -> "Playing"
               [] OTHER -> g.game_state]
    ELSE g

\* One pass of the loop body of main that starts outside Paused: update(), then
\* the click handler, then the key handler
frame(g, mouse_x, frame_time, click, key) ==
    handle_key(handle_mouse_click(update(g, mouse_x, frame_time), click), key)

\* ------------------------------------------------------------------------
\* A session late in the game.  EndgameInputs is a recorded run of the host:
\* per frame the pointer position (in arena units) and the frame time (in
\* ticks); the button is pressed in the first frame, the pause key never.
\* Endgame is the value of game that run leaves: computed by the program's own
\* operations from new(), hence a state the program reaches.  It has two
\* bricks left (rows 0 and 1 of column 6), both under the ball, one ball
\* remaining, and the ball moving down.
EndgameInputs == <<
    <<1366, 1>>, <<1017, 28>>, <<1236, 13>>, <<1338, 13>>, <<1366, 26>>,
    <<1236, 1>>, <<1228, 5>>, <<1189, 17>>, <<1056, 17>>, <<924, 13>>,
    <<822, 10>>, <<744, 8>>, <<681, 7>>, <<638, 2>>, <<638, 10>>,
    <<689, 8>>, <<752, 5>>, <<791, 6>>, <<838, 2>>, <<853, 10>>,
    <<931, 9>>, <<1002, 9>>, <<1072, 5>>, <<1111, 5>>, <<1150, 4>>,
    <<1181, 8>>, <<1244, 4>>, <<1275, 3>>, <<1299, 8>>, <<1361, 1>>,
    <<1366, 3>>, <<1366, 9>>, <<1322, 8>>, <<1260, 5>>, <<1220, 11>>,
    <<1135, 11>>, <<1049, 9>>, <<978, 12>>, <<885, 9>>, <<814, 3>>,
    <<791, 10>>, <<713, 2>>, <<697, 4>>, <<666, 6>>, <<638, 5>>,
    <<658, 17>>, <<791, 18>>, <<931, 17>>, <<1064, 2>>, <<1080, 5>>,
    <<1119, 16>>, <<1244, 8>>, <<1306, 6>>, <<1353, 12>>, <<1366, 5>>,
    <<1366, 2>>, <<1366, 15>>, <<1306, 8>>, <<1244, 3>>, <<1220, 8>>,
    <<1158, 41>>, <<838, 6>>, <<791, 11>>, <<705, 17>>, <<638, 4>>,
    <<638, 1>>, <<638, 2>>, <<638, 5>>, <<638, 48>>, <<947, 8>>,
    <<1010, 3>>, <<1033, 36>>, <<1314, 6>>, <<1361, 5>>, <<1366, 1>>,
    <<1366, 5>>, <<1366, 54>>, <<1010, 2>>, <<994, 3>>, <<970, 14>>,
    <<861, 7>>, <<806, 13>>, <<705, 2>>, <<689, 3>>, <<666, 3>>,
    <<642, 4>>, <<638, 12>>, <<705, 2>>, <<720, 20>>, <<877, 3>>,
    <<900, 56>>, <<1338, 1>>, <<1345, 2>>, <<1361, 11>>, <<1366, 7>>,
    <<1366, 3>>, <<1366, 10>>, <<1338, 2>>, <<1322, 9>>, <<1252, 14>>,
    <<1142, 7>>, <<1088, 3>>, <<1064, 4>>, <<1033, 5>>, <<994, 27>>,
    <<783, 5>>, <<744, 15>>, <<638, 8>>, <<638, 13>>, <<666, 14>>,
    <<775, 20>>, <<931, 21>>, <<1095, 9>>, <<1166, 1>>, <<1174, 4>>,
    <<1205, 11>>, <<1291, 4>>, <<1322, 16>>, <<1366, 38>>, <<1150, 54>>,
    <<728, 4>>, <<697, 8>>, <<638, 1>>, <<638, 5>>, <<638, 4>>, <<638, 6>>,
    <<638, 4>>, <<638, 3>>, <<638, 22>>, <<752, 22>>, <<924, 28>>,
    <<1142, 1>>, <<1150, 1>>, <<1158, 1>>, <<1166, 15>>, <<1283, 2>>,
    <<1299, 19>>, <<1366, 7>>, <<1366, 1>>, <<1366, 8>>, <<1338, 13>>,
    <<1236, 20>>, <<1080, 1>>, <<1072, 44>>, <<728, 1>>, <<720, 5>>,
    <<681, 14>>, <<638, 8>>, <<638, 2>>, <<650, 20>>, <<806, 1>>,
    <<814, 2>>, <<830, 1>>, <<838, 54>>, <<1260, 8>>, <<1322, 7>>,
    <<1366, 1>>, <<1366, 30>>, <<1150, 38>>, <<853, 2>>, <<838, 10>>,
    <<760, 14>>, <<650, 10>>, <<638, 4>>, <<638, 3>>, <<638, 2>>,
    <<638, 2>>, <<638, 2>>, <<638, 3>>, <<638, 45>>, <<924, 28>>,
    <<1142, 2>>, <<1158, 1>>, <<1166, 3>>, <<1189, 30>>, <<1366, 28>>,
    <<1205, 8>>, <<1142, 8>>, <<1080, 8>>, <<1017, 17>>, <<885, 12>>,
    <<791, 29>>, <<638, 47>>, <<931, 2>>, <<947, 43>>, <<1283, 22>>,
    <<1366, 7>>, <<1366, 7>>, <<1366, 1>>, <<1366, 1>>, <<1366, 2>>,
    <<1366, 2>>, <<1366, 1>>, <<1366, 32>>, <<1010, 20>>, <<1166, 8>>,
    <<1228, 22>>, <<1366, 33>>, <<1142, 1>>, <<1135, 31>>, <<892, 22>>,
    <<720, 2>>, <<705, 17>>, <<638, 40>>, <<885, 11>>, <<970, 10>>,
    <<1049, 16>>, <<1174, 17>>, <<1306, 5>>, <<1345, 9>>, <<1366, 12>>,
    <<1322, 23>>, <<1142, 15>>, <<1025, 2>>, <<1010, 6>>, <<963, 23>>,
    <<783, 18>>, <<642, 3>>, <<638, 35>>, <<892, 2>>, <<908, 36>>,
    <<1189, 6>>, <<1236, 5>>, <<1275, 10>>, <<1353, 11>>, <<1366, 23>>,
    <<1260, 38>>, <<963, 41>>, <<642, 10>>, <<638, 9>>, <<638, 23>>,
    <<814, 40>>, <<1127, 25>>, <<1322, 14>>, <<1366, 11>>, <<1345, 1>>,
    <<1338, 25>>, <<1142, 22>>, <<970, 6>>, <<924, 4>>, <<892, 4>>,
    <<861, 6>>, <<814, 29>>, <<638, 21>>, <<752, 46>>, <<1111, 4>>,
    <<1142, 3>>, <<1166, 26>>, <<1366, 10>>, <<1366, 27>>, <<1236, 2>>,
    <<1220, 6>>, <<1174, 8>>, <<1111, 9>>, <<1041, 17>>, <<908, 11>>,
    <<822, 29>>, <<638, 16>>, <<720, 72>>, <<1283, 10>>, <<1361, 1>>,
    <<1366, 1>>, <<1366, 8>>, <<1366, 42>>, <<1111, 20>>, <<955, 8>>,
    <<892, 1>>, <<885, 2>>, <<869, 13>>, <<767, 18>>, <<638, 2>>,
    <<638, 47>>, <<978, 9>>, <<1049, 1>>, <<1056, 26>>, <<1260, 22>>,
    <<1366, 14>>, <<1322, 6>>, <<1275, 1>>, <<1267, 1>>, <<1260, 2>>,
    <<1244, 1>>, <<1236, 71>>, <<681, 10>>, <<638, 13>>, <<705, 25>>,
    <<900, 11>>, <<986, 13>>, <<1088, 10>>, <<1166, 5>>, <<1205, 3>>,
    <<1228, 1>>, <<1236, 4>>, <<1267, 13>>, <<1366, 11>>, <<1366, 6>>,
    <<1366, 1>>, <<1366, 18>>, <<1275, 29>>, <<1049, 7>>, <<994, 51>>,
    <<638, 8>>, <<658, 9>>, <<728, 5>>, <<767, 11>>, <<853, 67>>,
    <<1366, 6>>, <<1366, 2>>, <<1366, 2>>, <<1366, 3>>, <<1366, 7>>,
    <<1366, 3>>, <<1366, 1>>, <<1366, 6>>, <<1366, 4>>, <<1366, 44>>,
    <<1080, 9>>, <<1010, 5>>, <<970, 2>>, <<955, 24>>, <<767, 19>>,
    <<638, 3>>, <<642, 39>>, <<947, 64>>, <<1366, 21>>, <<1283, 50>>,
    <<892, 41>>, <<638, 7>>, <<638, 2>>, <<642, 75>>, <<1228, 3>>,
    <<1252, 2>>, <<1267, 13>>, <<1366, 10>>, <<1366, 19>>, <<1299, 1>>,
    <<1291, 9>>, <<1220, 5>>, <<1181, 9>>, <<1111, 6>>, <<1064, 6>>,
    <<1017, 2>>, <<1002, 46>>, <<642, 2>>, <<638, 6>>, <<638, 25>>,
    <<775, 5>>, <<814, 6>>, <<861, 35>>, <<1135, 11>>, <<1220, 5>>,
    <<1260, 10>>, <<1338, 3>>, <<1361, 4>>, <<1366, 71>>, <<838, 3>>,
    <<814, 5>>, <<775, 4>>, <<744, 16>>, <<638, 47>>, <<986, 4>>,
    <<1017, 1>>, <<1025, 3>>, <<1049, 2>>, <<1064, 1>>, <<1072, 20>>,
    <<1228, 13>>, <<1330, 11>>, <<1366, 20>>, <<1260, 14>>, <<1150, 14>>,
    <<1041, 7>>, <<986, 36>>, <<705, 16>>, <<638, 4>>, <<638, 1>>,
    <<638, 1>>, <<638, 1>>, <<638, 62>>, <<1088, 4>>, <<1119, 16>>,
    <<1244, 14>>, <<1353, 1>>, <<1361, 5>>, <<1366, 22>>, <<1228, 10>>,
    <<1150, 30>>, <<916, 11>>, <<830, 25>>, <<638, 2>>, <<638, 5>>,
    <<658, 6>>, <<705, 13>>, <<806, 8>>, <<869, 1>>, <<877, 7>>,
    <<931, 2>>, <<947, 13>>, <<1049, 26>>, <<1252, 18>>, <<1366, 17>>,
    <<1260, 2>>, <<1244, 59>>, <<783, 16>>, <<658, 4>>, <<638, 7>>,
    <<638, 11>>, <<658, 24>>, <<845, 15>>, <<963, 9>>, <<1033, 10>>,
    <<1111, 2>>, <<1127, 2>>, <<1142, 13>>, <<1244, 12>>, <<1338, 2>>,
    <<1353, 2>>, <<1366, 1>>, <<1366, 9>>, <<1366, 29>>, <<1220, 7>>,
    <<1166, 2>>, <<1150, 8>>, <<1088, 26>>, <<885, 9>>, <<814, 7>>,
    <<760, 1>>, <<752, 4>>, <<720, 160>>, <<1010, 28>>, <<791, 23>>,
    <<638, 55>>, <<1041, 53>>, <<1366, 25>>, <<1260, 82>>, <<638, 42>> >>

\* the frames lo..hi of the recorded run, played from g (halved, which keeps
\* the evaluation shallow); a frame that starts in Paused has no update(), and
\* the run has none
RECURSIVE Play(_, _, _)
Play(g, lo, hi) ==
    IF lo > hi \/ g.game_state = "Paused"
    THEN g
    ELSE IF lo = hi
         THEN frame(g, EndgameInputs[lo][1] * Unit, EndgameInputs[lo][2],
                    lo = 1, FALSE)
         ELSE LET mid == (lo + hi) \div 2
              IN  Play(Play(g, lo, mid), mid + 1, hi)

Endgame == Play(Breakout_new(FONT_SIZE), 1, Len(EndgameInputs))

\* ------------------------------------------------------------------------
\* State
\*   game    the Breakout value of main
\*   before  the value of game when the current frame began (history)
\*   pc      the next call of the loop body: "update", "click" or "key";
\*           "panicked" and "exited" once the process has ended; "call" and
\*           "return" around the call of a function taken alone
\*   frames  the number of frames begun
\*   tally   what update() did since the session became fresh in Playing
\*           (history): whether it has (counting), and the ball-drops and the
\*           updates that met a brick since
\*   call    the call of a function taken alone (Rect::intersects,
\*           Brick::point_value): its arguments and, once it has returned,
\*           its result; empty while main runs
VARIABLES game, before, pc, frames, tally, call

vars == <<game, before, pc, frames, tally, call>>

NotCounting == [counting |-> FALSE, drops |-> 0, hits |-> 0]

\* a session with all bricks, 3 balls and no points, being played
IsFreshPlaying(g) ==
    /\ g.game_state = "Playing"
    /\ g.bricks = Breakout_bricks
    /\ g.balls_rem = 3
    /\ g.score = 0

\* the tally after update(g, mouse_x, frame_time)
Tallied(t, g, mouse_x, frame_time) ==
    LET c == check_paddle_collision(
                 check_wall_collision(handle_mouse_move(g, mouse_x)))
        m == integrate(check_brick_collision(c), frame_time)
    IN  IF t.counting
        THEN [t EXCEPT !.drops = IF ball_dropped(m) THEN @ + 1 ELSE @,
                       !.hits = IF HitIndices(c) # {} THEN @ + 1 ELSE @]
        ELSE t

\* main starts from new(); the exploration also starts from the late session
Init ==
    /\ game \in {Breakout_new(FONT_SIZE), Endgame}
    /\ before = game
    /\ pc = "update"
    /\ frames = 0
    /\ tally = NotCounting
    /\ call = <<>>

\* if game.game_state != GameState::Paused { game.update(); }
Update(mouse_x, frame_time) ==
    /\ pc = "update"
    /\ frames < MaxFrames
    /\ game.game_state # "Paused"
    /\ game' = update(game, mouse_x, frame_time)
    /\ before' = game
    /\ pc' = "click"
    /\ frames' = frames + 1
    /\ tally' = Tallied(tally, game, mouse_x, frame_time)
    /\ UNCHANGED call

\* the same call in a build with overflow checks: balls_rem -= 1 panics at 0
UpdatePanic(mouse_x, frame_time) ==
    /\ pc = "update"
    /\ frames < MaxFrames
    /\ game.game_state # "Paused"
    /\ sub_overflows(game, mouse_x, frame_time)
    /\ game' = at_overflow_panic(game, mouse_x, frame_time)
    /\ before' = game
    /\ pc' = "panicked"
    /\ frames' = frames + 1
    /\ tally' = Tallied(tally, game, mouse_x, frame_time)
    /\ UNCHANGED call

\* (mutant of SkipUpdate: update() is called in Paused too)
UpdateWhilePaused ==
    /\ pc = "update"
    /\ frames < MaxFrames
    /\ game.game_state = "Paused"
    /\ \E mouse_x \in MouseXs, frame_time \in FrameTimes :
          game' = update(game, mouse_x * Unit, frame_time)
    /\ before' = game
    /\ pc' = "click"
    /\ frames' = frames + 1
    /\ UNCHANGED <<tally, call>>

SkipUpdate ==
    /\ pc = "update"
    /\ frames < MaxFrames
    /\ game.game_state = "Paused"
    /\ before' = game
    /\ pc' = "click"
    /\ frames' = frames + 1
    /\ UNCHANGED <<game, tally, call>>

\* if game.game_state != GameState::Playing { game.exit_button(); }, the button
\* clicked: exit(0)
ExitButton ==
    /\ pc = "click"
    /\ game.game_state # "Playing"
    /\ pc' = "exited"
    /\ UNCHANGED <<game, before, frames, tally, call>>

HandleMouseClick(pressed) ==
    /\ pc = "click"
    /\ game' = handle_mouse_click(game, pressed)
    /\ pc' = "key"
    /\ tally' = IF game.game_state # "Playing" /\ IsFreshPlaying(game')
                THEN [counting |-> TRUE, drops |-> 0, hits |-> 0]
                ELSE tally
    /\ UNCHANGED <<before, frames, call>>

HandleKey(pressed) ==
    /\ pc = "key"
    /\ game' = handle_key(game, pressed)
    /\ pc' = "update"
    /\ UNCHANGED <<before, frames, tally, call>>

Next ==
    \/ \E mouse_x \in MouseXs, frame_time \in FrameTimes :
          Update(mouse_x * Unit, frame_time)
    \/ \E mouse_x \in MouseXs, frame_time \in FrameTimes :
          UpdatePanic(mouse_x * Unit, frame_time)
    \/ SkipUpdate
    \/ ExitButton
    \/ \E pressed \in BOOLEAN : HandleMouseClick(pressed)
    \/ \E pressed \in BOOLEAN : HandleKey(pressed)

Spec == Init /\ [][Next]_vars

\* ------------------------------------------------------------------------
\* Rect::intersects taken alone, on every pair of rectangles of the bounds
Rects ==
    [x : 0..MaxCoord, y : 0..MaxCoord, width : 1..MaxSide, height : 1..MaxSide]

IntersectsInit ==
    /\ game = Breakout_new(FONT_SIZE)
    /\ before = game
    /\ pc = "call"
    /\ frames = 0
    /\ tally = NotCounting
    /\ call \in [self : Rects, other : Rects, ret : {<<>>}]

Intersects ==
    /\ pc = "call"
    /\ call' = [call EXCEPT !.ret = <<intersects(call.self, call.other)>>]
    /\ pc' = "return"
    /\ UNCHANGED <<game, before, frames, tally>>

IntersectsNext == Intersects

IntersectsSpec == IntersectsInit /\ [][IntersectsNext]_vars

\* ------------------------------------------------------------------------
\* Brick::point_value taken alone, on every brick of the initial layout
PointValueInit ==
    /\ game = Breakout_new(FONT_SIZE)
    /\ before = game
    /\ pc = "call"
    /\ frames = 0
    /\ tally = NotCounting
    /\ call \in [self : {game.bricks[i] : i \in 1..Len(game.bricks)},
                  ret : {<<>>}]

PointValue ==
    /\ pc = "call"
    /\ call' = [call EXCEPT !.ret = <<point_value(call.self)>>]
    /\ pc' = "return"
    /\ UNCHANGED <<game, before, frames, tally>>

PointValueNext == PointValue

PointValueSpec == PointValueInit /\ [][PointValueNext]_vars


\* ------------------------------------------------------------------------
\* Reading a state: what the latest update() did

\* update() ran in the current frame and has returned
AfterUpdate == pc = "click" /\ before.game_state # "Paused"

\* the frame times that take before to game (the pointer position of the call
\* is game.last_mouse_x)
UpdateTimes ==
    {ft \in FrameTimes : game = update(before, game.last_mouse_x, ft)}

\* the session as update() held it when it called check_brick_collision
AtBrickCheck ==
    check_paddle_collision(
        check_wall_collision(
            handle_mouse_move(before, game.last_mouse_x)))

\* the ball dropped in the latest update()
Dropped ==
    /\ AfterUpdate
    /\ \E ft \in UpdateTimes :
          ball_dropped(integrate(before_update_ball(before, game.last_mouse_x), ft))

\* every field but game_state agrees
SameSession(g, h) == [g EXCEPT !.game_state = h.game_state] = h

FreshPlaying == [Breakout_new(FONT_SIZE) EXCEPT !.game_state = "Playing"]

\* the row point values 1, 1, 3, 3, 5, 5, 7, 7, once for each column
FullScore == BRICK_COUNT * (1 + 1 + 3 + 3 + 5 + 5 + 7 + 7)

\* ------------------------------------------------------------------------
\* C1 (as stated): whenever a ball-drop inside update() brings balls_rem to 0,
\* the state is GameOver when that update() returns.
C1_DropToZeroIsGameOver ==
    (Dropped /\ game.balls_rem = 0) => game.game_state = "GameOver"

\* C1 (amended): whenever a ball-drop inside update() brings balls_rem to 0,
\* the state when that update() returns is GameOver if a brick is left, and
\* Win if none is (the emptiness test runs last and overrides GameOver).
C1_DropToZeroIsGameOverOrWin ==
    (Dropped /\ game.balls_rem = 0) =>
        game.game_state = IF Len(game.bricks) = 0 THEN "Win" ELSE "GameOver"

\* a ball-drop has just taken the last ball of a session that was Playing,
\* with bricks left
C1_Witness ==
    /\ Dropped
    /\ before.balls_rem = 1
    /\ game.balls_rem = 0
    /\ before.game_state = "Playing"
    /\ Len(game.bricks) > 0
    /\ game.game_state = "GameOver"

\* ------------------------------------------------------------------------
\* C2 (as stated): balls_rem is in 0..3 in every reachable state, and a
\* ball-drop at balls_rem = 0 does not decrement it.
C2_LivesNeverBelowZero ==
    /\ game.balls_rem \in 0..3
    /\ (Dropped /\ before.balls_rem = 0) => game.balls_rem = 0

\* ------------------------------------------------------------------------
\* C3: an update() during which the bricks go from non-empty to empty returns
\* in Win, and the state is never Win while a brick remains.
C3_WinWhenLastBrickGoes ==
    /\ (AfterUpdate /\ Len(before.bricks) > 0 /\ Len(game.bricks) = 0)
          => game.game_state = "Win"
    /\ game.game_state = "Win" => Len(game.bricks) = 0

\* the update() that has just returned removed the last brick
C3_Witness ==
    /\ AfterUpdate
    /\ Len(before.bricks) = 1
    /\ Len(game.bricks) = 0
    /\ before.game_state = "Playing"
    /\ game.game_state = "Win"

\* ------------------------------------------------------------------------
\* C4: a click in GameOver or Win replaces the session by a fresh one and sets
\* the state to Playing, whatever the session held.
C4_ClickRestarts ==
    [][(HandleMouseClick(TRUE) /\ game.game_state \in {"GameOver", "Win"})
          => game' = FreshPlaying]_vars

\* the click handler has just returned a fresh Playing session in a frame
\* that began with points scored
C4_Witness ==
    /\ pc = "key"
    /\ game = FreshPlaying
    /\ before.score > 0

\* ------------------------------------------------------------------------
\* C5 (as stated): an update() that ends in GameOver having started in
\* another state started in Playing.
C5_GameOverOnlyFromPlaying ==
    (AfterUpdate /\ game.game_state = "GameOver" /\ before.game_state # "GameOver")
        => before.game_state = "Playing"

\* ------------------------------------------------------------------------
\* C6: across a frame that starts in Paused every field but game_state is
\* unchanged (update() is skipped; the handlers run and change game_state
\* only).
C6_PausedFrameFreezes ==
    (frames > 0 /\ before.game_state = "Paused") => SameSession(before, game)

\* a frame that began in Paused has run both handlers and left Paused
C6_Witness ==
    /\ pc = "update"
    /\ frames > 0
    /\ before.game_state = "Paused"
    /\ game.game_state = "Playing"
    /\ SameSession(before, game)

\* ------------------------------------------------------------------------
\* C7: the pause key turns Playing into Paused and Paused into Playing and
\* changes nothing else; in NewGame, GameOver and Win it changes nothing.
C7_PauseKeyToggles ==
    [][HandleKey(TRUE) =>
          /\ SameSession(game, game')
          /\ game.game_state = "Playing" => game'.game_state = "Paused"
          /\ game.game_state = "Paused" => game'.game_state = "Playing"
          /\ game.game_state \in {"NewGame", "GameOver", "Win"} => game' = game]_vars

\* the key handler has just paused a session (Paused is entered by the key
\* alone)
C7_Witness ==
    /\ pc = "update"
    /\ game.game_state = "Paused"
    /\ before.game_state # "Paused"

\* ------------------------------------------------------------------------
\* C8: an update() in NewGame, GameOver or Win leaves score and bricks
\* unchanged, and if the ball is over a brick it reflects the vertical
\* velocity.
C8_ScoringGatedToPlaying ==
    (AfterUpdate /\ before.game_state \in {"NewGame", "GameOver", "Win"}) =>
        /\ game.score = before.score
        /\ game.bricks = before.bricks
        /\ HitIndices(AtBrickCheck) # {}
              => game.ball_vel.y = -AtBrickCheck.ball_vel.y

\* an update() outside Playing has just met a brick
C8_Witness ==
    /\ AfterUpdate
    /\ before.game_state \in {"NewGame", "GameOver", "Win"}
    /\ HitIndices(AtBrickCheck) # {}
    /\ game.bricks = before.bricks
    /\ game.ball_vel.y = -AtBrickCheck.ball_vel.y

\* ------------------------------------------------------------------------
\* C9: update() resolves at most one brick: with no brick under the ball it
\* changes neither bricks nor score; otherwise, for the first brick in list
\* order under the ball, it negates the vertical velocity once and, if
\* Playing, adds that brick's point value and removes that brick alone (not
\* Playing: bricks and score unchanged).  The list is in row-major order.
C9_OneBrickPerUpdate ==
    AfterUpdate =>
        LET old == before.bricks
            ball == Rect_from_vec(before.ball_pos, BALL_SIZE)
            under(i) == intersects(ball, Rect_from_vec(old[i].pos, BRICK_SIZE))
        IN  /\ \A i, j \in 1..Len(old) :
                  i < j => \/ old[i].row < old[j].row
                           \/ old[i].row = old[j].row /\ old[i].pos.x < old[j].pos.x
            /\ IF \A i \in 1..Len(old) : ~under(i)
               THEN /\ game.bricks = old
                    /\ game.score = before.score
                    /\ game.ball_vel.y = AtBrickCheck.ball_vel.y
               ELSE \E i \in 1..Len(old) :
                      /\ under(i)
                      /\ \A j \in 1..(i - 1) : ~under(j)
                      /\ game.ball_vel.y = -AtBrickCheck.ball_vel.y
                      /\ IF before.game_state = "Playing"
                         THEN /\ game.score = before.score + point_value(old[i])
                              /\ Len(game.bricks) = Len(old) - 1
                              /\ \A j \in 1..(Len(old) - 1) :
                                    game.bricks[j] = IF j < i THEN old[j] ELSE old[j + 1]
                         ELSE /\ game.score = before.score
                              /\ game.bricks = old

\* a Playing update() has just found several bricks under the ball and
\* removed one
C9_Witness ==
    /\ AfterUpdate
    /\ before.game_state = "Playing"
    /\ Cardinality(HitIndices(AtBrickCheck)) >= 2
    /\ Len(game.bricks) = Len(before.bricks) - 1

\* ------------------------------------------------------------------------
\* C10: once all 112 bricks of a session are removed the state is Win and
\* the score is 448.
C10_AllBricksGoneIsWinWithFullScore ==
    Len(game.bricks) = 0 =>
        /\ game.game_state = "Win"
        /\ game.score = FullScore
        /\ FullScore = 448

\* the update() that has just returned removed the last of the 112 bricks
C10_Witness ==
    /\ AfterUpdate
    /\ Len(before.bricks) > 0
    /\ Len(game.bricks) = 0
    /\ game.score = FullScore
    /\ pc = "click"

\* ------------------------------------------------------------------------
\* C11: in a session that became fresh in Playing (112 bricks, 3 balls, score
\* 0), each of the first three ball-drops takes exactly one ball and changes
\* neither score nor bricks; the state is not GameOver after the first or the
\* second drop, and after the third, with no brick met, it is GameOver with
\* score 0.
C11_ThreeDropsEndTheGame ==
    (tally.counting /\ Dropped /\ tally.drops <= 3) =>
        /\ game.balls_rem = before.balls_rem - 1
        /\ game.balls_rem = 3 - tally.drops
        /\ game.score = before_update_ball(before, game.last_mouse_x).score
        /\ game.bricks = before_update_ball(before, game.last_mouse_x).bricks
        /\ tally.drops \in {1, 2} => game.game_state # "GameOver"
        /\ (tally.drops = 3 /\ tally.hits = 0) =>
              /\ game.game_state = "GameOver"
              /\ game.score = 0
              /\ game.bricks = Breakout_bricks

\* the third ball-drop of a session that became fresh in Playing and met no
\* brick has just ended the game
C11_Witness ==
    /\ tally = [counting |-> TRUE, drops |-> 3, hits |-> 0]
    /\ Dropped
    /\ before.game_state = "Playing"
    /\ before.balls_rem = 1
    /\ game.game_state = "GameOver"
    /\ game.score = 0

\* ------------------------------------------------------------------------
\* C12: a click in NewGame or Paused sets the state to Playing and changes
\* no other field; a click in Playing changes nothing.
C12_ClickStartsWithoutReset ==
    [][HandleMouseClick(TRUE) =>
          /\ game.game_state \in {"NewGame", "Paused"} =>
                game' = [game EXCEPT !.game_state = "Playing"]
          /\ game.game_state = "Playing" => game' = game]_vars

\* a click has just resumed a paused session that holds points and has lost
\* balls, keeping both
C12_Witness ==
    /\ pc = "key"
    /\ frames > 0
    /\ before.game_state = "Paused"
    /\ game.game_state = "Playing"
    /\ SameSession(before, game)
    /\ game.score > 0
    /\ game.balls_rem < 3

\* ------------------------------------------------------------------------
\* C13: the initial state is NewGame; in GameOver and in Win no step but a
\* click changes the state (update() and the pause key leave it), and a click
\* in any state but Playing gives Playing.
C13_EndStatesLeftOnlyByClick ==
    /\ Breakout_new(FONT_SIZE).game_state = "NewGame"
    /\ [](game.game_state # "Playing"
             => handle_mouse_click(game, TRUE).game_state = "Playing")
    /\ [][(game.game_state \in {"GameOver", "Win"}
              /\ game'.game_state # game.game_state)
            => (HandleMouseClick(TRUE) /\ game'.game_state = "Playing")]_vars

\* an update() in Win has just dropped the last ball and is still in Win
C13_Witness ==
    /\ Dropped
    /\ before.game_state = "Win"
    /\ before.balls_rem = 1
    /\ game.balls_rem = 0
    /\ game.game_state = "Win"

\* ------------------------------------------------------------------------
\* C14: paddle_pos.x is in [0, GAME_WIDTH - BRICK_SIZE.x] in every state,
\* paddle_pos.y never changes, and within a session (a restart click makes a
\* new one) only update() changes paddle_pos.x, to the clamped sum of the old
\* x and the pointer's movement since the last update().
C14_PaddleStaysInArena ==
    /\ [](/\ game.paddle_pos.x >= 0
          /\ game.paddle_pos.x <= GAME_WIDTH - BRICK_SIZE.x)
    /\ [][/\ game'.paddle_pos.y = game.paddle_pos.y
          /\ game'.paddle_pos.x # game.paddle_pos.x =>
                \/ /\ pc = "update"
                   /\ game'.paddle_pos.x =
                         Min(Max(game.paddle_pos.x
                                     + (game'.last_mouse_x - game.last_mouse_x), 0),
                             GAME_WIDTH - BRICK_SIZE.x)
                \/ /\ HandleMouseClick(TRUE)
                   /\ game.game_state \in {"GameOver", "Win"}]_vars

\* update() has just stopped at the right end of the arena a paddle that the
\* pointer's movement would have carried past it
C14_Witness ==
    /\ AfterUpdate
    /\ game.paddle_pos.x = GAME_WIDTH - BRICK_SIZE.x
    /\ before.paddle_pos.x + (game.last_mouse_x - before.last_mouse_x)
          > GAME_WIDTH - BRICK_SIZE.x
    /\ before.paddle_pos.x < GAME_WIDTH - BRICK_SIZE.x

\* ------------------------------------------------------------------------
\* the session as update() held it when check_wall_collision returned
AtWallCheck == check_wall_collision(handle_mouse_move(before, game.last_mouse_x))

\* C15 (as stated): after the wall check of an update(), a ball at or beyond
\* a side wall has its horizontal velocity pointing into the arena, and the
\* wall check does not move the ball.
C15_WallCheckTurnsBallBack ==
    AfterUpdate =>
        /\ AtWallCheck.ball_pos.x <= 0 => AtWallCheck.ball_vel.x > 0
        /\ AtWallCheck.ball_pos.x >= GAME_WIDTH - BALL_SIZE.x
              => AtWallCheck.ball_vel.x < 0
        /\ AtWallCheck.ball_pos = before.ball_pos

\* ------------------------------------------------------------------------
\* the ball's box is over the paddle's collider at the paddle check of the
\* latest update()
OverPaddle ==
    intersects(Rect_from_vec(AtWallCheck.ball_pos, BALL_SIZE),
               paddle_rect(AtWallCheck))

\* C16: after an update() hit_paddle tells whether the ball was over the
\* collider at its paddle check, and nothing but update() (and the restart,
\* which clears it) changes hit_paddle; the paddle check negates the vertical
\* velocity exactly when the ball is over the collider and hit_paddle is
\* clear, that is, on the first of a run of updates with the ball over it.
C16_PaddleHitLatches ==
    /\ [](AfterUpdate =>
             /\ game.hit_paddle = OverPaddle
             /\ AtBrickCheck.ball_vel.y =
                   IF OverPaddle /\ ~before.hit_paddle
                   THEN -AtWallCheck.ball_vel.y
                   ELSE AtWallCheck.ball_vel.y)
    /\ [][game'.hit_paddle # game.hit_paddle =>
             \/ pc = "update"
             \/ HandleMouseClick(TRUE) /\ ~game'.hit_paddle]_vars

\* the second of two updates in a row with the ball over the collider has
\* just left the vertical velocity alone
C16_Witness ==
    /\ AfterUpdate
    /\ OverPaddle
    /\ before.hit_paddle
    /\ game.hit_paddle
    /\ AtBrickCheck.ball_vel.y = AtWallCheck.ball_vel.y
    /\ AtBrickCheck.ball_vel.y = before.ball_vel.y

\* ------------------------------------------------------------------------
\* the session as update() held it when it called update_ball
AtUpdateBall == before_update_ball(before, game.last_mouse_x)

\* C17 (as stated): after every update() the ball is above the paddle's line,
\* and an update() whose integration took the ball to that line or past it
\* has put the ball at the centre, taken exactly one ball, and left velocity,
\* score and bricks as they were.
C17_BallAbovePaddleAfterUpdate ==
    AfterUpdate =>
        /\ game.ball_pos.y < game.paddle_pos.y
        /\ Dropped =>
              /\ game.ball_pos = BallStart
              /\ game.balls_rem = before.balls_rem - 1
              /\ game.ball_vel = AtUpdateBall.ball_vel
              /\ game.score = AtUpdateBall.score
              /\ game.bricks = AtUpdateBall.bricks

\* ------------------------------------------------------------------------
\* the sum of the point values of list[i], list[i + 1], ...
RECURSIVE PointsFrom(_, _)
PointsFrom(list, i) ==
    IF i > Len(list) THEN 0 ELSE point_value(list[i]) + PointsFrom(list, i + 1)

\* the total of the initial list
InitialPoints == PointsFrom(Breakout_bricks, 1)

\* the total of the list of g
RemainingPoints(g) ==
    IF g.bricks = Breakout_bricks THEN InitialPoints ELSE PointsFrom(g.bricks, 1)

\* the place of a brick in the initial list, from its row and column
InitialIndex(brick) ==
    brick.row * BRICK_COUNT + brick.pos.x \div (BRICK_SIZE.x + BRICK_GAP) + 1

\* C18: in every state score plus the point values of the bricks in the list
\* is 448, the total of the initial 112 bricks; the score is in 0..448, below
\* the range of its 16-bit counter, and no update() lowers it; the list is
\* the initial list with elements left out: each element is a brick of the
\* initial list and the elements keep their initial order (so none is twice
\* in the list).
C18_ScorePlusRemainingIsTotal ==
    /\ InitialPoints = 448
    /\ Len(Breakout_bricks) = 112
    /\ game.score + RemainingPoints(game) = 448
    /\ game.score \in 0..448
    /\ 448 < U16
    /\ AfterUpdate => game.score >= before.score
    /\ \/ game.bricks = Breakout_bricks
       \/ \A i \in 1..Len(game.bricks) :
             /\ InitialIndex(game.bricks[i]) \in 1..Len(Breakout_bricks)
             /\ Breakout_bricks[InitialIndex(game.bricks[i])] = game.bricks[i]
             /\ i > 1 => InitialIndex(game.bricks[i - 1])
                             < InitialIndex(game.bricks[i])

\* an update() has just removed a brick from the middle of the full list of
\* a session and scored it
C18_Witness ==
    /\ AfterUpdate
    /\ before.bricks = Breakout_bricks
    /\ Len(game.bricks) = Len(Breakout_bricks) - 1
    /\ game.bricks[Len(game.bricks)] = Breakout_bricks[Len(Breakout_bricks)]
    /\ game.score > 0

\* ------------------------------------------------------------------------
\* the open intervals (lo1, hi1) and (lo2, hi2) have a point in common
OpenOverlap(lo1, hi1, lo2, hi2) == Max(lo1, lo2) < Min(hi1, hi2)

\* C19: intersects(a, b) is true exactly when the open intervals of a and b
\* overlap on both axes; rectangles that only touch (the end of one on an
\* axis is the start of the other) do not intersect; and intersects(a, b) =
\* intersects(b, a).
C19_IntersectsStrictAndSymmetric ==
    pc = "return" =>
        LET a == call.self
            b == call.other
            ret == call.ret[1]
        IN  /\ ret = (/\ OpenOverlap(a.x, a.x + a.width, b.x, b.x + b.width)
                      /\ OpenOverlap(a.y, a.y + a.height, b.y, b.y + b.height))
            /\ (\/ a.x + a.width = b.x
                \/ b.x + b.width = a.x
                \/ a.y + a.height = b.y
                \/ b.y + b.height = a.y) => ~ret
            /\ ret = intersects(b, a)

\* intersects has just denied two rectangles that share an edge: the right
\* side of one is the left side of the other, over the same rows
C19_Witness ==
    /\ pc = "return"
    /\ call.self.x + call.self.width = call.other.x
    /\ call.self.y = call.other.y
    /\ call.self.height = call.other.height
    /\ call.ret = <<FALSE>>

\* ------------------------------------------------------------------------
\* C20: the point value of a brick of the initial layout is 1 in rows 0 and
\* 1, 3 in rows 2 and 3, 5 in rows 4 and 5, 7 in rows 6 and 7, which is twice
\* the half of the row rounded down, plus 1; the layout has 14 bricks in each
\* of the rows 0..7 and no other.
C20_PointValueByRow ==
    pc = "return" =>
        LET row == call.self.row
            ret == call.ret[1]
        IN  /\ row \in 0..7
            /\ ret = CASE row \in {0, 1} -> 1
                        [] row \in {2, 3} -> 3
                        [] row \in {4, 5} -> 5
                        [] row \in {6, 7} -> 7
            /\ ret = 2 * (CHOOSE h \in 0..row : 2 * h <= row /\ row < 2 * h + 2) + 1
            /\ \A r \in 0..7 :
                  Cardinality({i \in 1..Len(game.bricks) : game.bricks[i].row = r}) = 14

\* point_value has just returned 7 for a brick of row 6
C20_Witness ==
    /\ pc = "return"
    /\ call.self.row = 6
    /\ call.ret = <<7>>

=============================================================================
